---- MODULE Spec2Model ----
(***************************************************************************)
(* ReadonlyNonEmptyArray (src/src/ReadonlyNonEmptyArray.ts) as a state     *)
(* machine.  A client holds one non-empty array `cur` and repeatedly calls *)
(* one operation of the module on it.  Every call is evaluated on a small  *)
(* heap of JavaScript arrays (address -> sequence of cells), so that       *)
(* sharing, copying and in-place writes (push, sort, reverse, out[i] = x)  *)
(* are visible.  A cell holds an integer: an element, or the address of    *)
(* another array (a tuple, a chunk, a run).                                *)
(***************************************************************************)
EXTENDS Integers, Sequences, FiniteSets, TLC

MaxLen == 4          \* longest array the client holds or receives

Elem == 0 .. 2       \* the element type A
Ords == {"num", "key", "rev"}     \* the Ord instances a caller supplies
Eqs == {"num", "key"}             \* the Eq instances a caller supplies

VARIABLES cur, op, args, heap0, heap, res

vars == <<cur, op, args, heap0, heap, res>>

----------------------------------------------------------------------------
(* Caller-supplied capabilities                                            *)

Key(x) == x \div 2

\* O.compare(second)(first): the ordering of first relative to second
Ord_compare(O, second, first) ==
  LET a == IF O = "key" THEN Key(first) ELSE first
      b == IF O = "key" THEN Key(second) ELSE second
      c == IF a < b THEN -1 ELSE IF a > b THEN 1 ELSE 0
  IN IF O = "rev" THEN -c ELSE c

\* E.equals(second)(first)
Eq_equals(E, second, first) ==
  IF E = "key" THEN Key(first) = Key(second) ELSE first = second

----------------------------------------------------------------------------
(* The heap and the built-in array operations the module uses              *)

Ret(h, r) == [h |-> h, r |-> r]

Min(a, b) == IF a < b THEN a ELSE b
Max(a, b) == IF a > b THEN a ELSE b

\* an array literal: a fresh array holding s
Alloc(h, s) == Ret(Append(h, s), Len(h) + 1)

\* as[i], zero-based
At(h, a, i) == h[a][i + 1]

Length(h, a) == Len(h[a])

\* the value of Array.prototype.slice(start, end)
SliceVal(s, start, end) ==
  LET n == Len(s)
      from == IF start < 0 THEN Max(n + start, 0) ELSE Min(start, n)
      to == IF end < 0 THEN Max(n + end, 0) ELSE Min(end, n)
  IN IF to <= from THEN << >> ELSE SubSeq(s, from + 1, to)

\* as.slice(start, end): always a fresh array
Slice(h, a, start, end) == Alloc(h, SliceVal(h[a], start, end))

\* as.slice(start)
SliceFrom(h, a, start) == Slice(h, a, start, Len(h[a]))

\* first.concat(second): a fresh array
Concat(h, first, second) == Alloc(h, h[first] \o h[second])

\* out.push(...xs): writes into out
Push(h, out, xs) == [h EXCEPT ![out] = @ \o xs]

\* out[i] = x, zero-based, for i <= out.length
SetAt(h, out, i, x) ==
  IF i < Len(h[out]) THEN [h EXCEPT ![out][i + 1] = x]
  ELSE [h EXCEPT ![out] = Append(@, x)]

RECURSIVE RevVal(_)
RevVal(s) == IF s = << >> THEN << >> ELSE Append(RevVal(Tail(s)), Head(s))

\* as.reverse(): reverses in place and returns the same array
ReverseInPlace(h, a) == Ret([h EXCEPT ![a] = RevVal(@)], a)

\* the comparator with its arguments the other way round
sortComparator_swapped(O, first, second) == Ord_compare(O, first, second)

\* the comparator sort hands to Array.prototype.sort:
\* (first, second) => O.compare(second)(first)
sortComparator(O, first, second) == Ord_compare(O, second, first)

\* Array.prototype.sort with that comparator: stable (ES2019), x goes before
\* the first y already placed with comparator(y, x) > 0
RECURSIVE SortInsert(_, _, _)
SortInsert(O, s, x) ==
  IF s = << >> THEN <<x>>
  ELSE IF sortComparator(O, Head(s), x) > 0 THEN <<x>> \o s
  ELSE <<Head(s)>> \o SortInsert(O, Tail(s), x)

RECURSIVE SortVal(_, _, _)
SortVal(O, done, todo) ==
  IF todo = << >> THEN done
  ELSE SortVal(O, SortInsert(O, done, Head(todo)), Tail(todo))

\* as.sort((first, second) => O.compare(second)(first)): in place
SortInPlace(O, h, a) == Ret([h EXCEPT ![a] = SortVal(O, << >>, @)], a)

----------------------------------------------------------------------------
(* internal, constructors, utils                                           *)

\* the module's shared empty array lives at address 1 of every heap
empty == 1

\* _.some / _.none of ./internal
some(r) == [tag |-> "Some", r |-> r]
none == [tag |-> "None", r |-> 0]

\* NEA.fromReadonlyNonEmptyArray of ./NonEmptyArray: a shallow copy
fromReadonlyNonEmptyArray(h, as) == Alloc(h, h[as])

extract(h, as) == At(h, as, 0)

head(h, as) == extract(h, as)

tail(h, as) == SliceFrom(h, as, 1)

last(h, as) == At(h, as, Length(h, as) - 1)

init(h, as) == Slice(h, as, 0, -1)

prepend(hd, h, tl) == Alloc(h, <<hd>> \o h[tl])

concatW(second, h, first) == Concat(h, first, second)

append(end, h, ini) ==
  LET lit == Alloc(h, <<end>>)
  IN concatW(lit.r, lit.h, ini)

isNonEmpty(h, as) == Length(h, as) > 0

\* fromReadonlyArray without the length check
fromReadonlyArray_unchecked(h, as) == some(as)

fromReadonlyArray(h, as) ==
  IF isNonEmpty(h, as) THEN some(as) ELSE none

of(h, a) == Alloc(h, <<a>>)

----------------------------------------------------------------------------
(* combinators                                                             *)

reverse(h, as) ==
  LET sl == Slice(h, as, 0, -1)
      rv == ReverseInPlace(sl.h, sl.r)
  IN Alloc(rv.h, <<last(rv.h, as)>> \o rv.h[rv.r])

\* sort without the slice(): sorts the argument itself
sort_inPlace(O, h, as) ==
  IF Length(h, as) = 1 THEN Ret(h, as) ELSE SortInPlace(O, h, as)

sort(O, h, as) ==
  IF Length(h, as) = 1 THEN Ret(h, as)
  ELSE LET sl == SliceFrom(h, as, 0)
       IN SortInPlace(O, sl.h, sl.r)

\* isOutOfBound taking the index as one-based
isOutOfBound_oneBased(i, h, as) == i < 1 \/ i >= Length(h, as)

isOutOfBound(i, h, as) == i < 0 \/ i >= Length(h, as)

\* the functions A -> A a caller passes to modifyAt and map
ApplyAA(f, a) ==
  CASE f.k = "id" -> a
    [] f.k = "inc" -> (a + 1) % 3
    [] f.k = "const" -> f.c

modifyAt(i, f, h, as) ==
  IF isOutOfBound(i, h, as) THEN [h |-> h, o |-> none]
  ELSE LET prev == At(h, as, i)
           next == ApplyAA(f, prev)
       IN IF next = prev THEN [h |-> h, o |-> some(as)]
          ELSE LET out == fromReadonlyNonEmptyArray(h, as)
               IN [h |-> SetAt(out.h, out.r, i, next), o |-> some(out.r)]

updateAt(i, a, h, as) == modifyAt(i, [k |-> "const", c |-> a], h, as)

RECURSIVE prependAll_for(_, _, _, _, _)
prependAll_for(middle, h, as, out, i) ==
  IF i < Length(h, as)
  THEN prependAll_for(middle, Push(h, out, <<middle, At(h, as, i)>>), as, out, i + 1)
  ELSE Ret(h, out)

\* prependAll starting with the element instead of the separator
prependAll_elementFirst(middle, h, as) ==
  LET out == Alloc(h, <<At(h, as, 0), middle>>)
  IN prependAll_for(middle, out.h, as, out.r, 1)

prependAll(middle, h, as) ==
  LET out == Alloc(h, <<middle, At(h, as, 0)>>)
  IN prependAll_for(middle, out.h, as, out.r, 1)

intersperse(middle, h, as) ==
  LET rest == tail(h, as)
  IN IF isNonEmpty(rest.h, rest.r)
     THEN LET pa == prependAll(middle, rest.h, rest.r)
          IN prepend(At(pa.h, as, 0), pa.h, pa.r)
     ELSE Ret(rest.h, as)

\* the functions (a, b) -> C a caller passes to zipWith; tuple builds [a, b]
ApplyAB(f, h, a, b) ==
  CASE f.k = "tuple" -> Alloc(h, <<a, b>>)
    [] f.k = "add" -> Ret(h, (a + b) % 3)
    [] f.k = "first" -> Ret(h, a)

RECURSIVE zipWith_for(_, _, _, _, _, _, _)
zipWith_for(bs, f, h, as, cs, len, i) ==
  IF i < len
  THEN LET c == ApplyAB(f, h, At(h, as, i), At(h, bs, i))
       IN zipWith_for(bs, f, SetAt(c.h, cs, i, c.r), as, cs, len, i + 1)
  ELSE Ret(h, cs)

zipWith(bs, f, h, as) ==
  LET c0 == ApplyAB(f, h, At(h, as, 0), At(h, bs, 0))
      cs == Alloc(c0.h, <<c0.r>>)
      len == Min(Length(cs.h, as), Length(cs.h, bs))
  IN zipWith_for(bs, f, cs.h, as, cs.r, len, 1)

zip(bs, h, as) == zipWith(bs, [k |-> "tuple"], h, as)

\* the loop of unzip filling fb from the first component as well
RECURSIVE unzip_for_sameComponent(_, _, _, _, _)
unzip_for_sameComponent(h, abs, fa, fb, i) ==
  IF i < Length(h, abs)
  THEN LET h1 == SetAt(h, fa, i, At(h, At(h, abs, i), 0))
           h2 == SetAt(h1, fb, i, At(h1, At(h1, abs, i), 0))
       IN unzip_for_sameComponent(h2, abs, fa, fb, i + 1)
  ELSE Alloc(h, <<fa, fb>>)

RECURSIVE unzip_for(_, _, _, _, _)
unzip_for(h, abs, fa, fb, i) ==
  IF i < Length(h, abs)
  THEN LET h1 == SetAt(h, fa, i, At(h, At(h, abs, i), 0))
           h2 == SetAt(h1, fb, i, At(h1, At(h1, abs, i), 1))
       IN unzip_for(h2, abs, fa, fb, i + 1)
  ELSE Alloc(h, <<fa, fb>>)

unzip(h, abs) ==
  LET fa == Alloc(h, <<At(h, At(h, abs, 0), 0)>>)
      fb == Alloc(fa.h, <<At(fa.h, At(fa.h, abs, 0), 1)>>)
  IN unzip_for(fb.h, abs, fa.r, fb.r, 1)

\* the functions (i, a) -> B a caller passes to mapWithIndex; "ignoreIndex"
\* is the wrapper (_, a) => f(a) that map builds
ApplyIA(f, i, a) ==
  CASE f.k = "ignoreIndex" -> ApplyAA(f.f, a)
    [] f.k = "addIndex" -> (a + i) % 3
    [] f.k = "index" -> i % 3

RECURSIVE mapWithIndex_for(_, _, _, _, _)
mapWithIndex_for(f, h, as, out, i) ==
  IF i < Length(h, as)
  THEN mapWithIndex_for(f, Push(h, out, <<ApplyIA(f, i, At(h, as, i))>>), as, out, i + 1)
  ELSE Ret(h, out)

mapWithIndex(f, h, as) ==
  LET out == Alloc(h, <<ApplyIA(f, 0, head(h, as))>>)
  IN mapWithIndex_for(f, out.h, as, out.r, 1)

map(f, h, as) == mapWithIndex([k |-> "ignoreIndex", f |-> f], h, as)

\* an array of functions holds their codes
FnOf(n) ==
  CASE n = 0 -> [k |-> "id"]
    [] n = 1 -> [k |-> "inc"]
    [] OTHER -> [k |-> "const", c |-> 0]

\* the functions (i, a) -> ReadonlyNonEmptyArray<B> a caller passes to
\* chainWithIndex: "given" returns an array that already exists, the others
\* build a fresh one; "ignoreIndex" is the wrapper chain builds and "mapOver"
\* the function (f) => pipe(fa, map(f)) that ap builds
RECURSIVE ApplyChain(_, _, _, _)
ApplyChain(f, h, i, a) ==
  CASE f.k = "ignoreIndex" -> ApplyChain(f.f, h, 0, a)
    [] f.k = "of" -> of(h, a)
    [] f.k = "twice" -> Alloc(h, <<a, a>>)
    [] f.k = "withIndex" -> Alloc(h, <<i % 3, a>>)
    [] f.k = "given" -> Ret(h, f.c)
    [] f.k = "mapOver" -> map(FnOf(a), h, f.fa)

RECURSIVE chainWithIndex_for(_, _, _, _, _)
chainWithIndex_for(f, h, as, out, i) ==
  IF i < Length(h, as)
  THEN LET bs == ApplyChain(f, h, i, At(h, as, i))
       IN chainWithIndex_for(f, Push(bs.h, out, bs.h[bs.r]), as, out, i + 1)
  ELSE Ret(h, out)

\* chainWithIndex with its loop starting at index 0
chainWithIndex_fromZero(f, h, as) ==
  LET f0 == ApplyChain(f, h, 0, head(h, as))
      out == fromReadonlyNonEmptyArray(f0.h, f0.r)
  IN chainWithIndex_for(f, out.h, as, out.r, 0)

chainWithIndex(f, h, as) ==
  LET f0 == ApplyChain(f, h, 0, head(h, as))
      out == fromReadonlyNonEmptyArray(f0.h, f0.r)
  IN chainWithIndex_for(f, out.h, as, out.r, 1)

chain(f, h, as) == chainWithIndex([k |-> "ignoreIndex", f |-> f], h, as)

ap(fa, h, fab) == chain([k |-> "mapOver", fa |-> fa], h, fab)

\* splitAt without the check of n
splitAt_unguarded(n, h, as) ==
  LET sl == Slice(h, as, 1, n)
      pre == prepend(head(sl.h, as), sl.h, sl.r)
      suf == SliceFrom(pre.h, as, n)
  IN Alloc(suf.h, <<pre.r, suf.r>>)

splitAt(n, h, as) ==
  IF n < 1 \/ n > Length(h, as) THEN Alloc(h, <<as, empty>>)
  ELSE LET sl == Slice(h, as, 1, n)
           pre == prepend(head(sl.h, as), sl.h, sl.r)
           suf == SliceFrom(pre.h, as, n)
       IN Alloc(suf.h, <<pre.r, suf.r>>)

\* group's loop without the break
RECURSIVE group_for_noBreak(_, _, _, _, _, _)
group_for_noBreak(E, h, as, hd, out, i) ==
  IF i < Length(h, as)
  THEN IF Eq_equals(E, hd, At(h, as, i))
       THEN group_for_noBreak(E, Push(h, out, <<At(h, as, i)>>), as, hd, out, i + 1)
       ELSE group_for_noBreak(E, h, as, hd, out, i + 1)
  ELSE [h |-> h, i |-> i]

RECURSIVE group_for(_, _, _, _, _, _)
group_for(E, h, as, hd, out, i) ==
  IF i < Length(h, as) /\ Eq_equals(E, hd, At(h, as, i))
  THEN group_for(E, Push(h, out, <<At(h, as, i)>>), as, hd, out, i + 1)
  ELSE [h |-> h, i |-> i]

\* the function group hands to chop
group_step(E, h, as) ==
  LET hd == head(h, as)
      out == Alloc(h, <<hd>>)
      lp == group_for(E, out.h, as, hd, out.r, 1)
      rest == SliceFrom(lp.h, as, lp.i)
  IN Alloc(rest.h, <<out.r, rest.r>>)

\* the functions as -> [b, rest] handed to chop: those of chunksOf and group,
\* and a caller's own: "headTail" is as => [head(as), tail(as)], "all" is
\* as => [as.length, empty], and "keep" is as => [head(as), as], which hands
\* its argument back as the remainder
ApplyChop(f, h, as) ==
  CASE f.k = "splitAt" -> splitAt(f.n, h, as)
    [] f.k = "group" -> group_step(f.E, h, as)
    [] f.k = "headTail" -> LET tl == tail(h, as) IN Alloc(tl.h, <<head(tl.h, as), tl.r>>)
    [] f.k = "all" -> Alloc(h, <<Length(h, as), empty>>)
    [] f.k = "keep" -> Alloc(h, <<head(h, as), as>>)

\* what one call of f is remembered by: the length of the array it received,
\* the value it produced and the length of the remainder it returned
ChopCall(h0, as, h1, t) ==
  [len |-> Length(h0, as), b |-> At(h1, t, 0), rest |-> Length(h1, At(h1, t, 1))]

\* iterations of chop's loop the model follows before it reports the call
\* as still running
MaxIter == MaxLen + 2

\* chop's loop forgetting next = rest
RECURSIVE chop_while_staleNext(_, _, _, _, _, _)
chop_while_staleNext(f, h, out, next, fuel, calls) ==
  IF ~isNonEmpty(h, next) THEN [h |-> h, r |-> out, done |-> TRUE, calls |-> calls]
  ELSE IF fuel = 0 THEN [h |-> h, r |-> out, done |-> FALSE, calls |-> calls]
  ELSE LET t == ApplyChop(f, h, next)
           b == At(t.h, t.r, 0)
       IN chop_while_staleNext(f, Push(t.h, out, <<b>>), out, next, fuel - 1,
                               Append(calls, ChopCall(h, next, t.h, t.r)))

\* calls: the calls of f so far, in order; done: the loop has ended
RECURSIVE chop_while(_, _, _, _, _, _)
chop_while(f, h, out, next, fuel, calls) ==
  IF ~isNonEmpty(h, next) THEN [h |-> h, r |-> out, done |-> TRUE, calls |-> calls]
  ELSE IF fuel = 0 THEN [h |-> h, r |-> out, done |-> FALSE, calls |-> calls]
  ELSE LET t == ApplyChop(f, h, next)
           b == At(t.h, t.r, 0)
           rest == At(t.h, t.r, 1)
       IN chop_while(f, Push(t.h, out, <<b>>), out, rest, fuel - 1,
                     Append(calls, ChopCall(h, next, t.h, t.r)))

chop(f, h, as) ==
  LET t == ApplyChop(f, h, as)
      b == At(t.h, t.r, 0)
      rest == At(t.h, t.r, 1)
      out == Alloc(t.h, <<b>>)
  IN chop_while(f, out.h, out.r, rest, MaxIter, <<ChopCall(h, as, t.h, t.r)>>)

chunksOf(n, h, as) == chop([k |-> "splitAt", n |-> n], h, as)

group(E, h, as) == chop([k |-> "group", E |-> E], h, as)

\* fromOrd(O) of ./Eq: equal when O.compare gives 0
fromOrd(O) == IF O = "key" THEN "key" ELSE "num"

groupSort(O, h, as) ==
  LET s == sort(O, h, as)
  IN group(fromOrd(O), s.h, s.r)

\* the key functions A -> string a caller passes to groupBy
ApplyKey(f, a) == IF f = "key" THEN Key(a) ELSE a

RECURSIVE groupBy_for(_, _, _, _, _)
groupBy_for(f, h, as, out, i) ==
  IF i < Length(h, as)
  THEN LET a == At(h, as, i)
           k == ApplyKey(f, a)
       IN IF k \in DOMAIN out
          THEN groupBy_for(f, Push(h, out[k], <<a>>), as, out, i + 1)
          ELSE LET b == Alloc(h, <<a>>)
               IN groupBy_for(f, b.h, as, out @@ (k :> b.r), i + 1)
  ELSE [h |-> h, rec |-> out]

groupBy(f, h, as) == groupBy_for(f, h, as, << >>, 0)

\* the suppliers Lazy<ReadonlyNonEmptyArray<B>> a caller passes to alt: each
\* returns an array the caller holds
Force(second, h) == [h |-> h, r |-> second.c, calls |-> 1]

\* alt as a choice: first wins, the supplier is not called
altW_shortCircuit(second, h, first) ==
  IF isNonEmpty(h, first) THEN [h |-> h, r |-> first, forced |-> 0]
  ELSE LET s == Force(second, h) IN [h |-> s.h, r |-> s.r, forced |-> s.calls]

\* forced: how many times the supplier was called
altW(second, h, first) ==
  LET s == Force(second, h)
      out == concatW(s.r, s.h, first)
  IN [h |-> out.h, r |-> out.r, forced |-> s.calls]

alt(second, h, first) == altW(second, h, first)

\* the functions ReadonlyNonEmptyArray<A> -> B a caller passes to extend
ApplyExtend(f, h, as) ==
  CASE f = "extract" -> extract(h, as)
    [] f = "last" -> last(h, as)
    [] f = "length" -> Length(h, as)
    [] f = "identity" -> as

RECURSIVE extend_while(_, _, _, _, _)
extend_while(f, h, out, next, fuel) ==
  IF ~isNonEmpty(h, next) THEN [h |-> h, r |-> out, done |-> TRUE]
  ELSE IF fuel = 0 THEN [h |-> h, r |-> out, done |-> FALSE]
  ELSE LET h1 == Push(h, out, <<ApplyExtend(f, h, next)>>)
           nx == tail(h1, next)
       IN extend_while(f, nx.h, out, nx.r, fuel - 1)

\* extend with next starting at as instead of tail(as)
extend_fromSelf(f, h, as) ==
  LET out == Alloc(h, <<ApplyExtend(f, h, as)>>)
  IN extend_while(f, out.h, out.r, as, MaxIter)

extend(f, h, as) ==
  LET next == tail(h, as)
      out == Alloc(next.h, <<ApplyExtend(f, next.h, as)>>)
  IN extend_while(f, out.h, out.r, next.r, MaxIter)

duplicate(h, ma) == extend("identity", h, ma)

----------------------------------------------------------------------------
(* Foldable                                                                *)

\* S.concat(second)(first) of the caller's Semigroup: "concat" joins two
\* sequences, "first" and "last" keep one operand, "sub" subtracts (it tells
\* the operands and the nesting apart)
S_concat(S, second, first) ==
  CASE S = "concat" -> first \o second
    [] S = "first" -> first
    [] S = "last" -> second
    [] S = "sub" -> first - second

\* the functions (i, a) -> S a caller passes to foldMapWithIndex
ApplyFoldMapWithIndex(f, i, a) ==
  CASE f = "unit" -> <<a>>
    [] f = "pair" -> <<i, a>>
    [] f = "value" -> a
    [] f = "weighted" -> a + 3 * i

\* the functions a -> S a caller passes to foldMap; "value" is identity
ApplyFoldMap(f, a) ==
  CASE f = "unit" -> <<a>>
    [] f = "value" -> a

\* the reduce of foldMapWithIndex handing f the index within fa.slice(1)
RECURSIVE foldMapWithIndex_reduce_sliceIndex(_, _, _, _, _, _, _)
foldMapWithIndex_reduce_sliceIndex(S, f, h, xs, i, s, count) ==
  IF i < Length(h, xs)
  THEN foldMapWithIndex_reduce_sliceIndex(S, f, h, xs, i + 1,
         S_concat(S, ApplyFoldMapWithIndex(f, i, At(h, xs, i)), s), count + 1)
  ELSE [h |-> h, v |-> s, count |-> count]

\* fa.slice(1).reduce((s, a, i) => S.concat(f(i + 1, a))(s), ..); count: how
\* many times S.concat was called
RECURSIVE foldMapWithIndex_reduce(_, _, _, _, _, _, _)
foldMapWithIndex_reduce(S, f, h, xs, i, s, count) ==
  IF i < Length(h, xs)
  THEN foldMapWithIndex_reduce(S, f, h, xs, i + 1,
         S_concat(S, ApplyFoldMapWithIndex(f, i + 1, At(h, xs, i)), s), count + 1)
  ELSE [h |-> h, v |-> s, count |-> count]

foldMapWithIndex(S, f, h, fa) ==
  LET xs == SliceFrom(h, fa, 1)
  IN foldMapWithIndex_reduce(S, f, xs.h, xs.r, 0,
                             ApplyFoldMapWithIndex(f, 0, At(xs.h, fa, 0)), 0)

\* fa.slice(1).reduce((s, a) => S.concat(f(a))(s), ..)
RECURSIVE foldMap_reduce(_, _, _, _, _, _, _)
foldMap_reduce(S, f, h, xs, i, s, count) ==
  IF i < Length(h, xs)
  THEN foldMap_reduce(S, f, h, xs, i + 1,
         S_concat(S, ApplyFoldMap(f, At(h, xs, i)), s), count + 1)
  ELSE [h |-> h, v |-> s, count |-> count]

foldMap(S, f, h, fa) ==
  LET xs == SliceFrom(h, fa, 1)
  IN foldMap_reduce(S, f, xs.h, xs.r, 0, ApplyFoldMap(f, At(xs.h, fa, 0)), 0)

\* fa.reduce((a, acc) => S.concat(acc)(a)): no initial value, so a starts as
\* fa[0] and acc runs over the elements from index 1
RECURSIVE concatAll_reduce(_, _, _, _, _, _)
concatAll_reduce(S, h, fa, i, a, count) ==
  IF i < Length(h, fa)
  THEN concatAll_reduce(S, h, fa, i + 1, S_concat(S, At(h, fa, i), a), count + 1)
  ELSE [h |-> h, v |-> a, count |-> count]

concatAll(S, h, fa) == concatAll_reduce(S, h, fa, 1, At(h, fa, 0), 0)

----------------------------------------------------------------------------
(* Traversable                                                             *)

\* A value of the caller's Applicative F.  F = "Option": tag is "Some" or
\* "None"; F = "Writer": tag is "Writer" and w the effects written so far, in
\* order.  v is the value inside: an element, the address of an array or the
\* function (b) => pipe(bs, append(b)).
Effect(tag, w, v) == [tag |-> tag, w |-> w, v |-> v]

\* the effect an element of an array of effects stands for (sequence)
EffectOf(n) == IF n = 0 THEN Effect("None", << >>, 0) ELSE Effect("Some", << >>, n)

\* the functions (i, a) -> F<B> a caller passes to traverseWithIndex;
\* "ignoreIndex" is the wrapper (_, a) => f(a) that traverse builds and
\* "itself" the function (_, a) => a of sequence
RECURSIVE ApplyTraverse(_, _, _)
ApplyTraverse(f, i, a) ==
  CASE f.k = "ignoreIndex" -> ApplyTraverse(f.f, 0, a)
    [] f.k = "itself" -> EffectOf(a)
    [] f.k = "some" -> Effect("Some", << >>, (a + i) % 3)
    [] f.k = "noneAt" -> IF i = f.i THEN Effect("None", << >>, 0)
                         ELSE Effect("Some", << >>, a)
    [] f.k = "noneIfZero" -> IF a = 0 THEN Effect("None", << >>, 0)
                             ELSE Effect("Some", << >>, a)
    [] f.k = "tell" -> Effect("Writer", <<i, a>>, a)

\* the two functions traverseWithIndex maps over an effect: of, and
\* (bs) => (b) => pipe(bs, append(b))
ApplyMapped(g, h, v) ==
  CASE g = "of" -> of(h, v)
    [] g = "appender" -> Ret(h, [k |-> "appendTo", bs |-> v])

\* F.map(g)(fa)
F_map(g, h, fa) ==
  IF fa.tag = "None" THEN [h |-> h, e |-> fa]
  ELSE LET o == ApplyMapped(g, h, fa.v)
       IN [h |-> o.h, e |-> Effect(fa.tag, fa.w, o.r)]

\* F.ap(fa)(fab), fab holding (b) => pipe(bs, append(b)): the effects of fab
\* come first
F_ap(fa, h, fab) ==
  IF fab.tag = "None" THEN [h |-> h, e |-> fab]
  ELSE IF fa.tag = "None" THEN [h |-> h, e |-> fa]
  ELSE LET o == append(fa.v, h, fab.v.bs)
       IN [h |-> o.h, e |-> Effect(fab.tag, fab.w \o fa.w, o.r)]

\* the loop stopping at the first None, without calling f again
RECURSIVE traverseWithIndex_for_shortCircuit(_, _, _, _, _, _)
traverseWithIndex_for_shortCircuit(f, h, as, out, i, calls) ==
  IF i < Length(h, as) /\ out.tag # "None"
  THEN LET fi == ApplyTraverse(f, i, At(h, as, i))
           m == F_map("appender", h, out)
           a == F_ap(fi, m.h, m.e)
       IN traverseWithIndex_for_shortCircuit(f, a.h, as, a.e, i + 1, Append(calls, i))
  ELSE [h |-> h, e |-> out, calls |-> calls]

\* calls: the indices f was called with so far, in order
RECURSIVE traverseWithIndex_for(_, _, _, _, _, _)
traverseWithIndex_for(f, h, as, out, i, calls) ==
  IF i < Length(h, as)
  THEN LET fi == ApplyTraverse(f, i, At(h, as, i))
           m == F_map("appender", h, out)
           a == F_ap(fi, m.h, m.e)
       IN traverseWithIndex_for(f, a.h, as, a.e, i + 1, Append(calls, i))
  ELSE [h |-> h, e |-> out, calls |-> calls]

traverseWithIndex(f, h, as) ==
  LET f0 == ApplyTraverse(f, 0, head(h, as))
      out == F_map("of", h, f0)
  IN traverseWithIndex_for(f, out.h, as, out.e, 1, <<0>>)

traverse(f, h, as) == traverseWithIndex([k |-> "ignoreIndex", f |-> f], h, as)

sequence(h, as) == traverseWithIndex([k |-> "itself"], h, as)

----------------------------------------------------------------------------
(* The client                                                              *)

\* all arrays over Elem with lo..hi elements
Arrays(lo, hi) == UNION {[1 .. n -> Elem] : n \in lo .. hi}

\* the second arrays a caller passes (zipWith, alt, ap, chain's callback)
Seconds == {<<1>>, <<2, 0>>, <<0, 1, 1>>}

\* where a call's arguments live: the shared empty array, then as, then bs
asAddr == empty + 1
bsAddr == empty + 2

Heap1(as) == << << >>, as >>
Heap2(as, bs) == << << >>, as, bs >>

\* a non-empty array of pairs: the array at asAddr holds the addresses of the
\* pairs [as[i], bs[i]]
HeapPairs(as, bs) ==
  LET n == Min(Len(as), Len(bs))
  IN << << >>, [i \in 1 .. n |-> asAddr + i] >> \o [i \in 1 .. n |-> <<as[i], bs[i]>>]

NoArgs == [n |-> 0, x |-> 0, f |-> "", b |-> 0]

\* kind: what res.r is the address of ("array": an array of elements)
\* calls: the calls of a callback the operation made, in order; val: a
\* result that is no array; count: the calls of S.concat
Res(kind, r) ==
  [kind |-> kind, r |-> r, done |-> TRUE, forced |-> 0, rec |-> << >>, calls |-> << >>,
   eff |-> Effect("", << >>, 0), val |-> 0, count |-> 0]

Idle == op = "idle"

Call(name, a, h0, h1, r) ==
  /\ Idle
  /\ op' = name
  /\ args' = a
  /\ heap0' = h0
  /\ heap' = h1
  /\ res' = r
  /\ UNCHANGED cur

Init ==
  /\ cur \in Arrays(1, MaxLen)
  /\ op = "idle"
  /\ args = NoArgs
  /\ heap0 = << >>
  /\ heap = << >>
  /\ res = Res("idle", 0)

\* the client goes on with the array it received, when it received one the
\* model can hold (at most MaxLen elements, all of Elem)
Continue ==
  /\ ~Idle
  /\ cur' = IF res.kind \in {"array", "Some"} /\ heap[res.r] \in Arrays(0, MaxLen)
            THEN heap[res.r] ELSE cur
  /\ op' = "idle"
  /\ args' = NoArgs
  /\ heap0' = << >>
  /\ heap' = << >>
  /\ res' = Res("idle", 0)

Prepend ==
  \E x \in Elem :
    LET o == prepend(x, Heap1(cur), asAddr)
    IN Call("prepend", [NoArgs EXCEPT !.x = x], Heap1(cur), o.h, Res("array", o.r))

AppendEnd ==
  \E x \in Elem :
    LET o == append(x, Heap1(cur), asAddr)
    IN Call("append", [NoArgs EXCEPT !.x = x], Heap1(cur), o.h, Res("array", o.r))

FromReadonlyArray ==
  \E s \in {<< >>, cur, Tail(cur)} :
    LET o == fromReadonlyArray(Heap1(s), asAddr)
    IN Call("fromReadonlyArray", NoArgs, Heap1(s), Heap1(s), Res(o.tag, o.r))

Of ==
  \E a \in Elem :
    LET o == of(Heap1(cur), a)
    IN Call("of", [NoArgs EXCEPT !.x = a], Heap1(cur), o.h, Res("array", o.r))

Reverse ==
  LET o == reverse(Heap1(cur), asAddr)
  IN Call("reverse", NoArgs, Heap1(cur), o.h, Res("array", o.r))

Sort ==
  \E O \in Ords :
    LET o == sort(O, Heap1(cur), asAddr)
    IN Call("sort", [NoArgs EXCEPT !.f = O], Heap1(cur), o.h, Res("array", o.r))

\* the functions A -> A the client passes
FunsAA == {[k |-> "id"], [k |-> "inc"]} \cup {[k |-> "const", c |-> c] : c \in Elem}

ModifyAt ==
  \E i \in -1 .. MaxLen, f \in FunsAA :
    LET o == modifyAt(i, f, Heap1(cur), asAddr)
    IN Call("modifyAt", [NoArgs EXCEPT !.n = i, !.f = f], Heap1(cur), o.h,
            Res(o.o.tag, o.o.r))

UpdateAt ==
  \E i \in -1 .. MaxLen, a \in Elem :
    LET o == updateAt(i, a, Heap1(cur), asAddr)
    IN Call("updateAt", [NoArgs EXCEPT !.n = i, !.x = a], Heap1(cur), o.h,
            Res(o.o.tag, o.o.r))

PrependAll ==
  \E m \in Elem :
    LET o == prependAll(m, Heap1(cur), asAddr)
    IN Call("prependAll", [NoArgs EXCEPT !.x = m], Heap1(cur), o.h, Res("array", o.r))

Intersperse ==
  \E m \in Elem :
    LET o == intersperse(m, Heap1(cur), asAddr)
    IN Call("intersperse", [NoArgs EXCEPT !.x = m], Heap1(cur), o.h, Res("array", o.r))

ZipWith ==
  \E bs \in Seconds, f \in {[k |-> "add"], [k |-> "first"]} :
    LET o == zipWith(bsAddr, f, Heap2(cur, bs), asAddr)
    IN Call("zipWith", [NoArgs EXCEPT !.f = f, !.b = bsAddr], Heap2(cur, bs), o.h,
            Res("array", o.r))

Zip ==
  \E bs \in Seconds :
    LET o == zip(bsAddr, Heap2(cur, bs), asAddr)
    IN Call("zip", [NoArgs EXCEPT !.b = bsAddr], Heap2(cur, bs), o.h,
            Res("arrays", o.r))

Unzip ==
  \E bs \in Seconds :
    LET o == unzip(HeapPairs(cur, bs), asAddr)
    IN Call("unzip", NoArgs, HeapPairs(cur, bs), o.h, Res("tuple", o.r))

MapWithIndex ==
  \E f \in {[k |-> "addIndex"], [k |-> "index"]} :
    LET o == mapWithIndex(f, Heap1(cur), asAddr)
    IN Call("mapWithIndex", [NoArgs EXCEPT !.f = f], Heap1(cur), o.h, Res("array", o.r))

Map ==
  \E f \in FunsAA :
    LET o == map(f, Heap1(cur), asAddr)
    IN Call("map", [NoArgs EXCEPT !.f = f], Heap1(cur), o.h, Res("array", o.r))

\* the callbacks a -> ReadonlyNonEmptyArray the client passes to chain: they
\* build a fresh array, or return one the client holds (bs, or as itself)
FunsChain ==
  {[k |-> "of"], [k |-> "twice"]} \cup {[k |-> "given", c |-> c] : c \in {asAddr, bsAddr}}

ChainWithIndex ==
  \E bs \in Seconds, f \in FunsChain \cup {[k |-> "withIndex"]} :
    LET o == chainWithIndex(f, Heap2(cur, bs), asAddr)
    IN Call("chainWithIndex", [NoArgs EXCEPT !.f = f, !.b = bsAddr], Heap2(cur, bs),
            o.h, Res("array", o.r))

Chain ==
  \E bs \in Seconds, f \in FunsChain :
    LET o == chain(f, Heap2(cur, bs), asAddr)
    IN Call("chain", [NoArgs EXCEPT !.f = f, !.b = bsAddr], Heap2(cur, bs), o.h,
            Res("array", o.r))

\* cur holds the codes of the functions, bs the arguments
Ap ==
  \E bs \in Seconds :
    LET o == ap(bsAddr, Heap2(cur, bs), asAddr)
    IN Call("ap", [NoArgs EXCEPT !.b = bsAddr], Heap2(cur, bs), o.h, Res("array", o.r))

Extend ==
  \E f \in {"extract", "last", "length"} :
    LET o == extend(f, Heap1(cur), asAddr)
    IN Call("extend", [NoArgs EXCEPT !.f = f], Heap1(cur), o.h,
            [Res("array", o.r) EXCEPT !.done = o.done])

Duplicate ==
  LET o == duplicate(Heap1(cur), asAddr)
  IN Call("duplicate", NoArgs, Heap1(cur), o.h,
          [Res("arrays", o.r) EXCEPT !.done = o.done])

Alt ==
  \E bs \in Seconds, c \in {asAddr, bsAddr} :
    LET o == alt([k |-> "given", c |-> c], Heap2(cur, bs), asAddr)
    IN Call("alt", [NoArgs EXCEPT !.b = c], Heap2(cur, bs), o.h,
            [Res("array", o.r) EXCEPT !.forced = o.forced])

Group ==
  \E E \in Eqs :
    LET o == group(E, Heap1(cur), asAddr)
    IN Call("group", [NoArgs EXCEPT !.f = E], Heap1(cur), o.h,
            [Res("arrays", o.r) EXCEPT !.done = o.done])

GroupSort ==
  \E O \in Ords :
    LET o == groupSort(O, Heap1(cur), asAddr)
    IN Call("groupSort", [NoArgs EXCEPT !.f = O], Heap1(cur), o.h,
            [Res("arrays", o.r) EXCEPT !.done = o.done])

\* groupBy takes any array, the empty one too
GroupBy ==
  \E f \in {"key", "id"}, s \in {<< >>, cur} :
    LET o == groupBy(f, Heap1(s), asAddr)
    IN Call("groupBy", [NoArgs EXCEPT !.f = f], Heap1(s), o.h,
            [Res("record", 0) EXCEPT !.rec = o.rec])

SplitAt ==
  \E n \in -1 .. MaxLen + 1 :
    LET o == splitAt(n, Heap1(cur), asAddr)
    IN Call("splitAt", [NoArgs EXCEPT !.n = n], Heap1(cur), o.h, Res("tuple", o.r))

ChunksOf ==
  \E n \in -1 .. MaxLen + 1 :
    LET o == chunksOf(n, Heap1(cur), asAddr)
    IN Call("chunksOf", [NoArgs EXCEPT !.n = n], Heap1(cur), o.h,
            [Res("arrays", o.r) EXCEPT !.done = o.done])

\* the functions the client hands to chop
FunsChop ==
  {[k |-> "headTail"], [k |-> "all"], [k |-> "keep"], [k |-> "group", E |-> "key"]}
    \cup {[k |-> "splitAt", n |-> n] : n \in {0, 2}}

Chop ==
  \E f \in FunsChop :
    LET o == chop(f, Heap1(cur), asAddr)
    IN Call("chop", [NoArgs EXCEPT !.f = f], Heap1(cur), o.h,
            [Res("values", o.r) EXCEPT !.done = o.done, !.calls = o.calls])

\* the functions the client hands to traverseWithIndex and to traverse
FunsTraverseWithIndex ==
  {[k |-> "some"], [k |-> "noneIfZero"], [k |-> "tell"]}
    \cup {[k |-> "noneAt", i |-> i] : i \in {0, 1}}

FunsTraverse == {[k |-> "noneIfZero"], [k |-> "tell"]}

TraverseWithIndex ==
  \E f \in FunsTraverseWithIndex :
    LET o == traverseWithIndex(f, Heap1(cur), asAddr)
    IN Call("traverseWithIndex", [NoArgs EXCEPT !.f = f], Heap1(cur), o.h,
            [Res("effect", 0) EXCEPT !.eff = o.e, !.calls = o.calls])

Traverse ==
  \E f \in FunsTraverse :
    LET o == traverse(f, Heap1(cur), asAddr)
    IN Call("traverse", [NoArgs EXCEPT !.f = [k |-> "ignoreIndex", f |-> f]],
            Heap1(cur), o.h, [Res("effect", 0) EXCEPT !.eff = o.e, !.calls = o.calls])

\* cur holds the effects: 0 stands for None, any other a for Some(a)
Sequence ==
  LET o == sequence(Heap1(cur), asAddr)
  IN Call("sequence", [NoArgs EXCEPT !.f = [k |-> "itself"]], Heap1(cur), o.h,
          [Res("effect", 0) EXCEPT !.eff = o.e, !.calls = o.calls])

\* the Semigroups over elements, and the pairs of a Semigroup and a function
\* into it, the client passes
SemigroupsOfElem == {"sub", "first", "last"}

FoldsWithIndex ==
  ({"concat"} \X {"unit", "pair"}) \cup (SemigroupsOfElem \X {"value", "weighted"})

Folds == {<<"concat", "unit">>} \cup (SemigroupsOfElem \X {"value"})

FoldMapWithIndex ==
  \E sf \in FoldsWithIndex :
    LET o == foldMapWithIndex(sf[1], sf[2], Heap1(cur), asAddr)
    IN Call("foldMapWithIndex", [NoArgs EXCEPT !.f = sf], Heap1(cur), o.h,
            [Res("value", 0) EXCEPT !.val = o.v, !.count = o.count])

FoldMap ==
  \E sf \in Folds :
    LET o == foldMap(sf[1], sf[2], Heap1(cur), asAddr)
    IN Call("foldMap", [NoArgs EXCEPT !.f = sf], Heap1(cur), o.h,
            [Res("value", 0) EXCEPT !.val = o.v, !.count = o.count])

ConcatAll ==
  \E S \in SemigroupsOfElem :
    LET o == concatAll(S, Heap1(cur), asAddr)
    IN Call("concatAll", [NoArgs EXCEPT !.f = <<S, "value">>], Heap1(cur), o.h,
            [Res("value", 0) EXCEPT !.val = o.v, !.count = o.count])

Next ==
  \/ Prepend
  \/ AppendEnd
  \/ FromReadonlyArray
  \/ Of
  \/ Reverse
  \/ Sort
  \/ ModifyAt
  \/ UpdateAt
  \/ PrependAll
  \/ Intersperse
  \/ ZipWith
  \/ Zip
  \/ Unzip
  \/ MapWithIndex
  \/ Map
  \/ ChainWithIndex
  \/ Chain
  \/ Ap
  \/ Extend
  \/ Duplicate
  \/ Alt
  \/ Group
  \/ GroupSort
  \/ GroupBy
  \/ SplitAt
  \/ ChunksOf
  \/ Chop
  \/ TraverseWithIndex
  \/ Traverse
  \/ Sequence
  \/ FoldMapWithIndex
  \/ FoldMap
  \/ ConcatAll
  \/ Continue

Spec == Init /\ [][Next]_vars

----------------------------------------------------------------------------
(* What the properties speak of                                            *)

\* the array the last call received and, for a call that returned an array
\* of elements, the array it returned
In == heap0[asAddr]
Out == heap[res.r]

\* an array of arrays, by value
Deref(h, a) == [i \in 1 .. Len(h[a]) |-> h[h[a][i]]]

RECURSIVE FlatVal(_)
FlatVal(ss) == IF ss = << >> THEN << >> ELSE Head(ss) \o FlatVal(Tail(ss))

RECURSIVE FilterVal(_, _)
FilterVal(s, keep) ==
  IF s = << >> THEN << >>
  ELSE (IF Head(s) \in keep THEN <<Head(s)>> ELSE << >>) \o FilterVal(Tail(s), keep)

Count(s, x) == Cardinality({i \in 1 .. Len(s) : s[i] = x})

IsPermutation(s, t) ==
  /\ Len(s) = Len(t)
  /\ \A i \in 1 .. Len(s) : Count(s, s[i]) = Count(t, s[i])

\* as[i..n-1], zero-based
Suffix(s, i) == SubSeq(s, i + 1, Len(s))

ArrayOps ==
  {"prepend", "append", "of", "reverse", "sort", "map", "mapWithIndex", "chain",
   "chainWithIndex", "ap", "extend", "alt", "zipWith", "zip", "prependAll",
   "intersperse"}

OptionOps == {"modifyAt", "updateAt", "fromReadonlyArray"}

\* C1: every array the module hands out has at least one element: the value
\* the client holds after any sequence of calls, the result of every operation
\* typed as returning a non-empty array, the Some-result of modifyAt, updateAt
\* and fromReadonlyArray, every run of group, every chunk of chunksOf, the
\* prefix of splitAt, both components of unzip and every bucket of groupBy.
C1_NonEmpty ==
  /\ Len(cur) >= 1
  /\ op \in ArrayOps => Len(heap[res.r]) >= 1
  /\ op \in OptionOps /\ res.kind = "Some" => Len(heap[res.r]) >= 1
  /\ op \in {"group", "groupSort", "chunksOf", "duplicate"} =>
       /\ Len(heap[res.r]) >= 1
       /\ \A i \in 1 .. Len(heap[res.r]) : Len(Deref(heap, res.r)[i]) >= 1
  /\ op = "splitAt" => Len(Deref(heap, res.r)[1]) >= 1
  /\ op = "unzip" => Len(Deref(heap, res.r)[1]) >= 1 /\ Len(Deref(heap, res.r)[2]) >= 1
  /\ op = "groupBy" => \A k \in DOMAIN res.rec : Len(heap[res.rec[k]]) >= 1

\* fromReadonlyArray was given a non-empty array and answered Some
C1_Witness ==
  /\ op = "fromReadonlyArray"
  /\ res.kind = "Some"
  /\ Len(In) = 2

\* C2: modifyAt(i, f)(as) is None exactly when i < 0 or i >= length(as);
\* otherwise Some(out) with out as long as as, out[i] = f(as[i]) and every
\* other element that of as (so with f the identity out equals as); updateAt(i, a)
\* is modifyAt with the constant function; fromReadonlyArray is None exactly on
\* the empty array; no other operation answers None.
C2_ModifyAt ==
  /\ op \in {"modifyAt", "updateAt"} =>
       LET i == args.n
           f == IF op = "modifyAt" THEN args.f ELSE [k |-> "const", c |-> args.x]
       IN /\ res.kind \in {"Some", "None"}
          /\ res.kind = "None" <=> (i < 0 \/ i >= Len(In))
          /\ res.kind = "Some" =>
               /\ Len(Out) = Len(In)
               /\ Out[i + 1] = ApplyAA(f, In[i + 1])
               /\ \A j \in 1 .. Len(In) : j # i + 1 => Out[j] = In[j]
               /\ f.k = "id" => Out = In
  /\ op = "fromReadonlyArray" =>
       /\ res.kind \in {"Some", "None"}
       /\ res.kind = "None" <=> In = << >>
       /\ res.kind = "Some" => Out = In
  /\ res.kind = "None" => op \in OptionOps

\* modifyAt changed the last element of a three-element array
C2_Witness ==
  /\ op = "modifyAt"
  /\ args.n = 2
  /\ Len(In) = 3
  /\ res.kind = "Some"
  /\ Out # In

\* C3: sort(O)(as) is a permutation of as in ascending order under O (for
\* i < j, out[i] is not greater than out[j]); it is stable (the elements of one
\* class of O-equal elements keep their order); a single-element input is
\* returned as is.
C3_Sort ==
  op = "sort" =>
    LET O == args.f
    IN /\ IsPermutation(In, Out)
       /\ \A i, j \in 1 .. Len(Out) : i < j => Ord_compare(O, Out[j], Out[i]) <= 0
       /\ \A x \in Elem :
            LET class == {y \in Elem : Ord_compare(O, x, y) = 0}
            IN FilterVal(Out, class) = FilterVal(In, class)
       /\ Len(In) = 1 => res.r = asAddr

\* sort moved two O-equal elements, given in the order 1, 0, behind nothing
\* and before the greater one
C3_Witness ==
  /\ op = "sort"
  /\ args.f = "key"
  /\ In = <<2, 1, 0>>
  /\ Out = <<1, 0, 2>>

\* C4: group(E)(as) is a non-empty array of non-empty runs: (1) the runs,
\* concatenated in order, give back as; (2) the elements of one run are
\* E-equal to each other; (3) the first element of each run after the first is
\* not E-equal to the elements of the run before it.  [1,2,1,1] with numeric
\* equality gives [[1],[2],[1,1]].
C4_Group ==
  op = "group" =>
    LET E == args.f
        runs == Deref(heap, res.r)
    IN /\ res.done
       /\ Len(runs) >= 1
       /\ \A k \in 1 .. Len(runs) : Len(runs[k]) >= 1
       /\ FlatVal(runs) = In
       /\ \A k \in 1 .. Len(runs) :
            \A i, j \in 1 .. Len(runs[k]) : Eq_equals(E, runs[k][i], runs[k][j])
       /\ \A k \in 2 .. Len(runs) :
            \A i \in 1 .. Len(runs[k - 1]) : ~Eq_equals(E, runs[k - 1][i], runs[k][1])
       /\ (In = <<1, 2, 1, 1>> /\ E = "num") => runs = << <<1>>, <<2>>, <<1, 1>> >>

\* group split [1,2,1,1] by numeric equality
C4_Witness ==
  /\ op = "group"
  /\ args.f = "num"
  /\ In = <<1, 2, 1, 1>>
  /\ Len(heap[res.r]) = 3

\* C5: for every integer n, chunksOf(n)(as) terminates and its chunks,
\* concatenated in order, give back as; for 1 <= n <= length(as) every chunk
\* but the last has n elements and the last has 1..n; for n < 1 or
\* n > length(as) the result is the one chunk as.  splitAt(n)(as) is
\* [prefix, suffix] with prefix ++ suffix = as, the prefix of n elements for
\* 1 <= n <= length(as), and otherwise the prefix as and the suffix empty.
C5_Chunks ==
  /\ op = "chunksOf" =>
       LET n == args.n
           chunks == Deref(heap, res.r)
           m == Len(chunks)
       IN /\ res.done
          /\ FlatVal(chunks) = In
          /\ (1 <= n /\ n <= Len(In)) =>
               /\ \A k \in 1 .. m - 1 : Len(chunks[k]) = n
               /\ 1 <= Len(chunks[m]) /\ Len(chunks[m]) <= n
          /\ (n < 1 \/ n > Len(In)) => chunks = <<In>>
  /\ op = "splitAt" =>
       LET n == args.n
           prefix == Deref(heap, res.r)[1]
           suffix == Deref(heap, res.r)[2]
       IN /\ Len(heap[res.r]) = 2
          /\ prefix \o suffix = In
          /\ (1 <= n /\ n <= Len(In)) => Len(prefix) = n
          /\ (n < 1 \/ n > Len(In)) => prefix = In /\ suffix = << >>

\* chunksOf(2) cut a three-element array into a full chunk and a shorter one
C5_Witness ==
  /\ op = "chunksOf"
  /\ args.n = 2
  /\ Len(In) = 3
  /\ Len(heap[res.r]) = 2

\* the array the callback f of chain returns for (i, a), by value
ChainVal(f, i, a) ==
  CASE f.k = "of" -> <<a>>
    [] f.k = "twice" -> <<a, a>>
    [] f.k = "withIndex" -> <<i % 3, a>>
    [] f.k = "given" -> heap0[f.c]

\* C6: chainWithIndex(f)(as) is f(0, as[0]) ++ ... ++ f(n-1, as[n-1]), and
\* chain(f) the same with the index ignored; chain(of)(x) = x, and
\* chain(f)(of(a)) = f(a).
C6_Chain ==
  /\ op \in {"chainWithIndex", "chain"} =>
       Out = FlatVal([i \in 1 .. Len(In) |-> ChainVal(args.f, i - 1, In[i])])
  /\ op = "chain" /\ args.f.k = "of" => Out = In
  /\ op = "chain" /\ Len(In) = 1 => Out = ChainVal(args.f, 0, In[1])

\* chainWithIndex ran a callback that uses the index over three elements
C6_Witness ==
  /\ op = "chainWithIndex"
  /\ args.f.k = "withIndex"
  /\ Len(In) = 3
  /\ Len(Out) = 6

\* what the function f of extend gives for an array, by value
ExtendVal(f, s) ==
  CASE f = "extract" -> s[1]
    [] f = "last" -> s[Len(s)]
    [] f = "length" -> Len(s)

\* C7: extend(f)(as) terminates and has the length n of as, element i being f
\* of the suffix of as that starts at index i; so extract(extend(f)(as)) =
\* f(as), extend(extract)(as) = as, and duplicate(as) is the suffixes of as
\* from the longest to the shortest.
C7_Extend ==
  /\ op = "extend" =>
       /\ res.done
       /\ Len(Out) = Len(In)
       /\ \A i \in 0 .. Len(In) - 1 : Out[i + 1] = ExtendVal(args.f, Suffix(In, i))
       /\ extract(heap, res.r) = ExtendVal(args.f, In)
       /\ args.f = "extract" => Out = In
  /\ op = "duplicate" =>
       /\ res.done
       /\ Deref(heap, res.r) = [i \in 1 .. Len(In) |-> Suffix(In, i - 1)]

\* extend(length) ran over a three-element array
C7_Witness ==
  /\ op = "extend"
  /\ args.f = "length"
  /\ Len(In) = 3
  /\ Out = <<3, 2, 1>>

\* C8: alt(second)(first) always calls the supplier and returns first
\* followed by second(): its length is the sum of the two lengths, first is
\* its prefix, and it is never first alone.
C8_Alt ==
  op = "alt" =>
    LET second == heap0[args.b]
    IN /\ res.forced = 1
       /\ Out = In \o second
       /\ Len(Out) = Len(In) + Len(second)
       /\ SubSeq(Out, 1, Len(In)) = In
       /\ Out # In

\* alt appended a two-element alternative
C8_Witness ==
  /\ op = "alt"
  /\ args.b = bsAddr
  /\ Len(heap0[bsAddr]) = 2
  /\ Len(Out) = Len(In) + 2

\* where the array that a callback of chain built for index i lives: the
\* call's first new array is f(0, as[0]), its second the copy the results are
\* pushed onto, and one more follows for every further index
ChainRet(i) == Len(heap0) + (IF i = 0 THEN 1 ELSE i + 2)

\* C9: no operation writes to an array it was given: after the call every
\* array that existed before it (the arguments, the arrays a callback or a
\* supplier returned from the caller's own, the shared empty array) has the
\* elements it had, also when the result is the argument itself; and every
\* array a callback of chain or chainWithIndex built holds what the callback
\* returned.
C9_NoMutation ==
  ~Idle =>
    /\ Len(heap) >= Len(heap0)
    /\ \A a \in 1 .. Len(heap0) : heap[a] = heap0[a]
    /\ (op \in {"chainWithIndex", "chain"} /\ args.f.k # "given") =>
         \A i \in 0 .. Len(In) - 1 : heap[ChainRet(i)] = ChainVal(args.f, i, In[i + 1])

\* chainWithIndex ran with a callback that returns the argument itself, and
\* pushed its elements again
C9_Witness ==
  /\ op = "chainWithIndex"
  /\ args.f.k = "given"
  /\ args.f.c = asAddr
  /\ Len(In) = 2
  /\ Len(Out) = 4
  /\ heap[asAddr] = In

\* C10: prependAll(s)(as) has 2n elements, s at every even index 2i and as[i]
\* at every odd index 2i+1; intersperse(s)(as) has 2n-1 elements, as[i] at every
\* even index 2i and s at every odd index, which is prependAll(s)(as) without
\* its first element; for n = 1 intersperse returns as unchanged.
C10_Intersperse ==
  /\ op = "prependAll" =>
       /\ Len(Out) = 2 * Len(In)
       /\ \A i \in 0 .. Len(In) - 1 : Out[2 * i + 1] = args.x /\ Out[2 * i + 2] = In[i + 1]
  /\ op = "intersperse" =>
       /\ Len(Out) = 2 * Len(In) - 1
       /\ \A i \in 0 .. Len(In) - 1 : Out[2 * i + 1] = In[i + 1]
       /\ \A i \in 0 .. Len(In) - 2 : Out[2 * i + 2] = args.x
       /\ LET pa == prependAll(args.x, heap0, asAddr) IN Out = Tail(pa.h[pa.r])
       /\ Len(In) = 1 => res.r = asAddr /\ Out = In

\* intersperse put the separator twice into a three-element array
C10_Witness ==
  /\ op = "intersperse"
  /\ Len(In) = 3
  /\ Len(Out) = 5
  /\ args.x # In[1]

\* the calls of chop's function shrank the remainder every time: each
\* returned a remainder shorter than the array it received
ChopShrinks == \A i \in 1 .. Len(res.calls) : res.calls[i].rest < res.calls[i].len

\* the loop of chop ended, after at most length(as) calls of f, each on an
\* array shorter than the one before, and the result holds the value of each
\* call, in call order
ChopTerminates ==
  /\ res.done
  /\ Len(res.calls) <= Len(In)
  /\ res.calls[1].len = Len(In)
  /\ \A i \in 2 .. Len(res.calls) : res.calls[i].len < res.calls[i - 1].len
  /\ Out = [i \in 1 .. Len(res.calls) |-> res.calls[i].b]

\* C11 as stated: chop(f)(as) terminates for every function f and every
\* non-empty as, each call receiving a strictly shorter array than the one
\* before, after at most length(as) calls, with one value per call in call
\* order.
C11_Original == op = "chop" => ChopTerminates

\* C11: chop(f)(as) terminates whenever every call of f returns a remainder
\* shorter than the array it received: then each call receives a strictly
\* shorter array than the one before, the loop runs at most length(as) times
\* and the result holds one value per call of f, in call order.
C11_Chop == (op = "chop" /\ ChopShrinks) => ChopTerminates

\* chop ran as => [head(as), tail(as)] over a three-element array
C11_Witness ==
  /\ op = "chop"
  /\ args.f.k = "headTail"
  /\ Len(In) = 3
  /\ ChopShrinks
  /\ Len(res.calls) = 3
  /\ Out = In

\* the effect f gives for the element at index i (zero-based) of the input
EffectAt(i) == ApplyTraverse(args.f, i, In[i + 1])

\* C12: traverseWithIndex(F)(f)(as), and traverse and sequence built on it,
\* call f exactly once for each index, in the order 0, 1, .., n-1, and combine
\* the effects in that order with the results appended at the end: with
\* Option the result is Some([b0, .., b(n-1)]) when every f(i, as[i]) is
\* Some(bi) and None when one of them is None; with an Applicative that
\* writes its effects down, they are written in index order.
C12_Traverse ==
  op \in {"traverseWithIndex", "traverse", "sequence"} =>
    LET n == Len(In)
        idx == 0 .. n - 1
    IN /\ res.calls = [i \in 1 .. n |-> i - 1]
       /\ (\E i \in idx : EffectAt(i).tag = "None") => res.eff.tag = "None"
       /\ (\A i \in idx : EffectAt(i).tag # "None") =>
            /\ res.eff.tag = EffectAt(0).tag
            /\ heap[res.eff.v] = [i \in 1 .. n |-> EffectAt(i - 1).v]
            /\ res.eff.w = FlatVal([i \in 1 .. n |-> EffectAt(i - 1).w])

\* traverseWithIndex met None at index 1 of a three-element array and still
\* called f for index 2
C12_Witness ==
  /\ op = "traverseWithIndex"
  /\ args.f = [k |-> "noneAt", i |-> 1]
  /\ Len(In) = 3
  /\ res.calls = <<0, 1, 2>>
  /\ res.eff.tag = "None"

\* (..((v1 <> v2) <> v3) .. <> vn), where x <> y is S.concat(y)(x)
RECURSIVE LeftNested(_, _)
LeftNested(S, vs) ==
  IF Len(vs) = 1 THEN vs[1]
  ELSE S_concat(S, vs[Len(vs)], LeftNested(S, SubSeq(vs, 1, Len(vs) - 1)))

\* C13: with x <> y for S.concat(y)(x), foldMap(S)(f)(as) is
\* (..((f(as[0]) <> f(as[1])) <> f(as[2])) .. <> f(as[n-1])),
\* foldMapWithIndex(S)(f)(as) the same with f(i, as[i]) given the index i of
\* the element in as, and concatAll(S)(as) is foldMap(S)(identity)(as); the
\* earlier element is always the left operand, and a single-element input
\* gives f(as[0]) without a call of the combine.
C13_Fold ==
  /\ op = "foldMap" =>
       /\ res.val = LeftNested(args.f[1], [i \in 1 .. Len(In) |-> ApplyFoldMap(args.f[2], In[i])])
       /\ res.count = Len(In) - 1
       /\ Len(In) = 1 => res.val = ApplyFoldMap(args.f[2], In[1])
  /\ op = "foldMapWithIndex" =>
       /\ res.val = LeftNested(args.f[1],
                      [i \in 1 .. Len(In) |-> ApplyFoldMapWithIndex(args.f[2], i - 1, In[i])])
       /\ res.count = Len(In) - 1
       /\ Len(In) = 1 => res.val = ApplyFoldMapWithIndex(args.f[2], 0, In[1])
  /\ op = "concatAll" =>
       /\ res.val = LeftNested(args.f[1], In)
       /\ res.val = foldMap(args.f[1], "value", heap0, asAddr).v
       /\ res.count = Len(In) - 1

\* foldMapWithIndex subtracted index-weighted values over three elements:
\* (as[0] - (as[1] + 3)) - (as[2] + 6)
C13_Witness ==
  /\ op = "foldMapWithIndex"
  /\ args.f = <<"sub", "weighted">>
  /\ In = <<2, 0, 1>>
  /\ res.val = -8
  /\ res.count = 2

\* C14: zipWith(bs, f)(as) has length min(length(as), length(bs)) and element
\* i is f(as[i], bs[i]) (zip: the pair [as[i], bs[i]]); unzip(abs) is [fa, fb]
\* with fa and fb as long as abs, fa[i] = abs[i][0], fb[i] = abs[i][1], and
\* zip(fb)(fa) has the pairs of abs again.
C14_Zip ==
  /\ op = "zipWith" =>
       /\ Len(Out) = Min(Len(In), Len(heap0[bsAddr]))
       /\ \A i \in 1 .. Len(Out) :
            Out[i] = ApplyAB(args.f, heap0, In[i], heap0[bsAddr][i]).r
  /\ op = "zip" =>
       /\ Len(Out) = Min(Len(In), Len(heap0[bsAddr]))
       /\ \A i \in 1 .. Len(Out) : heap[Out[i]] = <<In[i], heap0[bsAddr][i]>>
  /\ op = "unzip" =>
       LET abs == Deref(heap0, asAddr)
           fa == Out[1]
           fb == Out[2]
           back == zip(fb, heap, fa)
       IN /\ Len(Out) = 2
          /\ Len(heap[fa]) = Len(abs)
          /\ Len(heap[fb]) = Len(abs)
          /\ \A i \in 1 .. Len(abs) : heap[fa][i] = abs[i][1] /\ heap[fb][i] = abs[i][2]
          /\ Deref(back.h, back.r) = abs

\* three pairs were unzipped into two different arrays
C14_Witness ==
  /\ op = "unzip"
  /\ Deref(heap0, asAddr) = <<<<2, 0>>, <<0, 1>>, <<1, 1>>>>
  /\ heap[Out[1]] = <<2, 0, 1>>
  /\ heap[Out[2]] = <<0, 1, 1>>

\* zipWith cut the longer of two arrays of different lengths
C14_WitnessZipWith ==
  /\ op = "zipWith"
  /\ Len(In) = 4
  /\ Len(heap0[bsAddr]) = 2
  /\ Len(Out) = 2

====
